---- MODULE Spec2Model ----
(***************************************************************************)
(* Connection registry and fan-out relay of server-bot (src/index.js).     *)
(*                                                                         *)
(* Node runs every request handler and every event callback to completion  *)
(* on one thread, so each handler below is one atomic action.  The only    *)
(* await of the program (User.findOne in /login) precedes every assignment *)
(* of that handler, so /login is atomic at the point where it resumes.     *)
(***************************************************************************)
EXTENDS Integers, Sequences, FiniteSets, TLC

\* Number of response objects (SSE stream handles) the process creates.
MaxStreams == 2

Usernames == {"alice", "bob"}
SessionIds == {"s1", "s2"}
DeviceTypes == {"laptop", "phone"}
Handles == 1..MaxStreams

NoSession == [username |-> "none", deviceType |-> "none"]
NoRecord == [laptop |-> <<0>>, phone |-> <<0>>]

\* JavaScript values of a request body field.
Undefined == [kind |-> "undefined", val |-> <<>>]
Str(chunks) == [kind |-> "string", val |-> chunks]
Payloads == {Undefined, Str(<<>>), Str(<<"hi">>)}
Truthy(v) == v.kind = "string" /\ v.val # <<>>

\* Bodies of POST /login; every user of the database has the password "right".
LoginBodies ==
    [username : Usernames, password : {"right"},
     deviceType : DeviceTypes \cup {"missing"}]
    \cup {[username |-> "missing", password |-> "right", deviceType |-> "laptop"],
          [username |-> "alice", password |-> "missing", deviceType |-> "laptop"],
          [username |-> "alice", password |-> "wrong", deviceType |-> "laptop"]}

VARIABLES
    connections,  \* username -> { laptop: [], phone: [] }, or NoRecord
    sessions,     \* session store: session id -> session data, or NoSession
    streams,      \* per response object: transport state and the closure's username, role
    nextRes,      \* the next response object to be created
    lastResp,     \* the answer of the step just taken, when it was a stream or send request
    lastWrites    \* the res.write calls of the step just taken, in order

vars == <<connections, sessions, streams, nextRes, lastResp, lastWrites>>

Unopened == [state |-> "unopened", username |-> "none", deviceType |-> "none"]
\* Once the close callback has run, nothing refers to res or to its closure.
Closed == [state |-> "closed", username |-> "none", deviceType |-> "none"]
Resp(op, status) == [op |-> op, status |-> status]
NoResp == Resp("none", 0)

----------------------------------------------------------------------------
\* const connections = {}; the session store (MongoDB) outlives the process,
\* so it may hold sessions of logins made to an earlier process.
Init ==
    /\ connections = [u \in Usernames |-> NoRecord]
    /\ sessions \in [SessionIds -> {NoSession} \cup
                        [username : Usernames, deviceType : DeviceTypes]]
    /\ streams = [h \in Handles |-> Unopened]
    /\ nextRes = 1
    /\ lastResp = NoResp
    /\ lastWrites = <<>>

----------------------------------------------------------------------------
\* if (!connections[username])
HasRecord(conns, username) == conns[username] # NoRecord

\* JSON.stringify(eventData): members whose value is undefined are left out.
JSONstringify(eventData) ==
    <<(<<"type", Str(<<eventData.type>>)>>)>> \o
    (IF eventData.data.kind = "undefined" THEN <<>>
     ELSE <<(<<"data", eventData.data>>)>>)

\* `data: ${JSON.stringify(eventData)}\n\n`
SseChunk(eventData) == <<"data: ", JSONstringify(eventData), "\n\n">>

\* res.write(chunk): nothing is delivered once the transport is gone; the call
\* reports failure (returns false) and does not throw.
ResWrite(stream) == stream.state = "open"

\* Faulty variant: the loop starts at the second element.
ForEachWrite_SkipFirst(bucket, strms, chunk) ==
    [i \in 1..(Len(bucket) - 1) |->
        [res |-> bucket[i + 1], chunk |-> chunk, ok |-> ResWrite(strms[bucket[i + 1]])]]

\* Faulty variant: a failed write ends the loop, as a throwing write would.
ForEachWrite_AbortOnFailure(bucket, strms, chunk) ==
    LET bad == {i \in 1..Len(bucket) : ~ResWrite(strms[bucket[i]])}
        stop == IF bad = {} THEN Len(bucket)
                ELSE CHOOSE i \in bad : \A j \in bad : i <= j
    IN  [i \in 1..stop |->
            [res |-> bucket[i], chunk |-> chunk, ok |-> ResWrite(strms[bucket[i]])]]

\* connections[username][deviceType].forEach((res) => res.write(...))
ForEachWrite(bucket, strms, chunk) ==
    [i \in 1..Len(bucket) |->
        [res |-> bucket[i], chunk |-> chunk, ok |-> ResWrite(strms[bucket[i]])]]

\* Faulty variant: the device type is ignored and both buckets are written to.
broadcastToDeviceType_AnyRole(conns, strms, username, deviceType, eventData) ==
    IF ~HasRecord(conns, username) THEN <<>>
    ELSE ForEachWrite(conns[username]["laptop"] \o conns[username]["phone"],
                      strms, SseChunk(eventData))

\* Faulty variant: the username is ignored; alice's and bob's buckets are written to.
broadcastToDeviceType_AllUsers(conns, strms, username, deviceType, eventData) ==
    ForEachWrite((IF HasRecord(conns, "alice") THEN conns["alice"][deviceType] ELSE <<>>)
                 \o (IF HasRecord(conns, "bob") THEN conns["bob"][deviceType] ELSE <<>>),
                 strms, SseChunk(eventData))

\* broadcastToDeviceType(username, deviceType, eventData): the writes it makes
broadcastToDeviceType(conns, strms, username, deviceType, eventData) ==
    IF ~HasRecord(conns, username) THEN <<>>
    ELSE ForEachWrite(conns[username][deviceType], strms, SseChunk(eventData))

\* Faulty variant: only the presence of a session is checked.
Forbidden_NoRoleCheck(sess, required) == sess = NoSession

\* !username || req.session.deviceType !== required
Forbidden(sess, required) ==
    sess = NoSession \/ sess.deviceType # required

\* Faulty variant: res is stored twice.
Push_Twice(bucket, res) == Append(Append(bucket, res), res)

\* Faulty variant: res is not stored.
Push_Lost(bucket, res) == bucket

\* Faulty variant: a lost update, the bucket is replaced by one holding only res.
Push_Overwrite(bucket, res) == <<res>>

\* connections[username].laptop.push(res)
Push(bucket, res) == Append(bucket, res)

\* Faulty variant: the comparison is inverted (client === res).
Filter_Inverted(bucket, res) == SelectSeq(bucket, LAMBDA client : client = res)

\* Faulty variant: the last element is dropped, whichever it is (pop).
Filter_Pop(bucket, res) == SubSeq(bucket, 1, Len(bucket) - 1)

\* bucket.filter((client) => client !== res)
Filter(bucket, res) == SelectSeq(bucket, LAMBDA client : client # res)

----------------------------------------------------------------------------
\* Faulty variant: the record is initialised on every login, not only when absent.
Login_ResetRecord(sid, body) ==
    /\ lastResp' = NoResp
    /\ lastWrites' = <<>>
    /\ UNCHANGED <<streams, nextRes>>
    /\ IF body.username = "missing" \/ body.password # "right"
       THEN UNCHANGED <<connections, sessions>>
       ELSE /\ sessions' = [sessions EXCEPT ![sid] =
                   [username |-> body.username,
                    deviceType |-> IF body.deviceType = "missing" THEN "phone"
                                   ELSE body.deviceType]]
            /\ connections' = [connections EXCEPT ![body.username] =
                                  [laptop |-> <<>>, phone |-> <<>>]]

\* app.post("/login")
Login(sid, body) ==
    LET username == body.username
        password == body.password
        deviceType == body.deviceType
    IN
    /\ lastResp' = NoResp
    /\ lastWrites' = <<>>
    /\ UNCHANGED <<streams, nextRes>>
    /\ IF username = "missing" \/ password = "missing"
       THEN UNCHANGED <<connections, sessions>>        \* 400
       ELSE IF password # "right"
       THEN UNCHANGED <<connections, sessions>>        \* 401
       ELSE /\ sessions' = [sessions EXCEPT ![sid] =
                   [username |-> username,
                    deviceType |-> IF deviceType = "missing" THEN "phone"
                                   ELSE deviceType]]
            /\ connections' =
                   IF ~HasRecord(connections, username)
                   THEN [connections EXCEPT ![username] =
                            [laptop |-> <<>>, phone |-> <<>>]]
                   ELSE connections

\* app.post("/logout")
Logout(sid) ==
    /\ sessions' = [sessions EXCEPT ![sid] = NoSession]
    /\ lastResp' = NoResp
    /\ lastWrites' = <<>>
    /\ UNCHANGED <<connections, streams, nextRes>>

\* The body shared by app.get("/sse/laptop") and app.get("/sse/phone").
OpenStream(sid, role, op) ==
    LET sess == sessions[sid]
        res == nextRes
    IN  /\ lastWrites' = <<>>
        /\ UNCHANGED sessions
        /\ IF Forbidden(sess, role)
           THEN /\ lastResp' = Resp(op, 403)
                /\ UNCHANGED <<connections, streams, nextRes>>
           ELSE IF ~HasRecord(connections, sess.username)
           THEN \* connections[username] is undefined: TypeError after
                \* flushHeaders.  res is stored nowhere and the close
                \* callback is never installed.
                /\ lastResp' = Resp(op, 500)
                /\ UNCHANGED <<connections, streams, nextRes>>
           ELSE /\ nextRes <= MaxStreams
                /\ nextRes' = nextRes + 1
                /\ connections' = [connections EXCEPT
                       ![sess.username][role] = Push(@, res)]
                /\ streams' = [streams EXCEPT ![res] =
                       [state |-> "open", username |-> sess.username,
                        deviceType |-> role]]
                /\ lastResp' = Resp(op, 200)

\* app.get("/sse/laptop")
SseLaptop(sid) == OpenStream(sid, "laptop", "sse-laptop")

\* app.get("/sse/phone")
SsePhone(sid) == OpenStream(sid, "phone", "sse-phone")

\* The transport of an open stream goes away (client close, network drop).
Disconnect(h) ==
    /\ streams[h].state = "open"
    /\ streams' = [streams EXCEPT ![h].state = "disconnected"]
    /\ lastResp' = NoResp
    /\ lastWrites' = <<>>
    /\ UNCHANGED <<connections, sessions, nextRes>>

\* Faulty variant: the whole record of the username is reset.
Unregister_WholeRecord(conns, username, role, res) ==
    [conns EXCEPT ![username] = [laptop |-> <<>>, phone |-> <<>>]]

\* Faulty variant: a record whose buckets are both empty is deleted.
Unregister_DropEmptyRecord(conns, username, role, res) ==
    LET after == [conns EXCEPT ![username][role] = Filter(@, res)]
    IN  IF after[username]["laptop"] = <<>> /\ after[username]["phone"] = <<>>
        THEN [after EXCEPT ![username] = NoRecord]
        ELSE after

\* The registry after the close callback of res, which captured username and role.
Unregister(conns, username, role, res) ==
    [conns EXCEPT ![username][role] = Filter(@, res)]

\* req.on("close", ...)
CloseCallback(h) ==
    /\ streams[h].state = "disconnected"
    /\ connections' = Unregister(connections, streams[h].username,
                                 streams[h].deviceType, h)
    /\ streams' = [streams EXCEPT ![h] = Closed]
    /\ lastResp' = NoResp
    /\ lastWrites' = <<>>
    /\ UNCHANGED <<sessions, nextRes>>

\* Faulty variant: a broadcast that reaches nobody is answered 404.
Relay_RejectNoRecipient(username, target, eventData, op) ==
    LET writes == broadcastToDeviceType(connections, streams, username,
                                        target, eventData)
    IN  /\ lastWrites' = writes
        /\ lastResp' = Resp(op, IF writes = <<>> THEN 404 ELSE 200)

\* What a send handler does once it calls broadcastToDeviceType.
Relay(username, target, eventData, op) ==
    /\ lastWrites' = broadcastToDeviceType(connections, streams, username,
                                           target, eventData)
    /\ lastResp' = Resp(op, 200)

\* app.post("/send-image")
SendImage(sid, base64Image) ==
    LET sess == sessions[sid]
    IN  /\ UNCHANGED <<connections, sessions, streams, nextRes>>
        /\ IF Forbidden(sess, "laptop")
           THEN /\ lastResp' = Resp("send-image", 403)
                /\ lastWrites' = <<>>
           ELSE IF ~Truthy(base64Image)
           THEN /\ lastResp' = Resp("send-image", 400)
                /\ lastWrites' = <<>>
           ELSE Relay(sess.username, "phone",
                      [type |-> "image",
                       data |-> Str(<<"data:image/png;base64,">> \o base64Image.val)],
                      "send-image")

\* Faulty variant: the handles whose write failed are removed from the bucket.
SendText_Pruning(sid, text) ==
    LET sess == sessions[sid]
        writes == broadcastToDeviceType(connections, streams, sess.username,
                      "laptop", [type |-> "text", data |-> text])
        dead == {writes[i].res : i \in {j \in 1..Len(writes) : ~writes[j].ok}}
    IN  /\ UNCHANGED <<sessions, streams, nextRes>>
        /\ IF Forbidden(sess, "phone")
           THEN /\ lastResp' = Resp("send-text", 403)
                /\ lastWrites' = <<>>
                /\ UNCHANGED connections
           ELSE /\ lastWrites' = writes
                /\ lastResp' = Resp("send-text", 200)
                /\ connections' =
                      IF dead = {} THEN connections
                      ELSE [connections EXCEPT ![sess.username]["laptop"] =
                               SelectSeq(@, LAMBDA client : client \notin dead)]

\* app.post("/send-text")
SendText(sid, text) ==
    LET sess == sessions[sid]
    IN  /\ UNCHANGED <<connections, sessions, streams, nextRes>>
        /\ IF Forbidden(sess, "phone")
           THEN /\ lastResp' = Resp("send-text", 403)
                /\ lastWrites' = <<>>
           ELSE Relay(sess.username, "laptop",
                      [type |-> "text", data |-> text], "send-text")

Next ==
    \/ \E sid \in SessionIds, body \in LoginBodies : Login(sid, body)
    \/ \E sid \in SessionIds : Logout(sid)
    \/ \E sid \in SessionIds : SseLaptop(sid)
    \/ \E sid \in SessionIds : SsePhone(sid)
    \/ \E h \in Handles : Disconnect(h)
    \/ \E h \in Handles : CloseCallback(h)
    \/ \E sid \in SessionIds, b \in Payloads : SendImage(sid, b)
    \/ \E sid \in SessionIds, t \in Payloads : SendText(sid, t)

Spec == Init /\ [][Next]_vars

\* The event loop dispatches the close event of every request whose socket closed.
FairSpec == Spec /\ \A h \in Handles : WF_vars(CloseCallback(h))

----------------------------------------------------------------------------
\* Vocabulary of the properties.

\* The positions of res in bucket.
Positions(bucket, res) == {i \in 1..Len(bucket) : bucket[i] = res}
InBucket(conns, username, role, res) ==
    HasRecord(conns, username) /\ Positions(conns[username][role], res) # {}
\* How often res occurs in the whole registry.
Occurrences(conns, res) ==
    Cardinality(UNION {{<<x[1], x[2], i>> : i \in Positions(conns[x[1]][x[2]], res)} :
        x \in {y \in Usernames \X DeviceTypes : HasRecord(conns, y[1])}})
Registered(conns, res) == Occurrences(conns, res) > 0
\* The response objects res.write was called on, and those that took the chunk.
Written(writes) == {writes[i].res : i \in 1..Len(writes)}
Delivered(writes, res, chunk) ==
    {i \in 1..Len(writes) :
        writes[i].res = res /\ writes[i].ok /\ writes[i].chunk = chunk}
OtherRole(role) == IF role = "laptop" THEN "phone" ELSE "laptop"
\* The request passes the gate of an endpoint that requires role.
Admitted(sid, role) ==
    sessions[sid] # NoSession /\ sessions[sid].deviceType = role
HiText == Str(<<"hi">>)
HiTextRecord ==
    <<"data: ", <<(<<"type", Str(<<"text">>)>>), (<<"data", Str(<<"hi">>)>>)>>, "\n\n">>
HiImageRecord ==
    <<"data: ", <<(<<"type", Str(<<"image">>)>>),
                  (<<"data", Str(<<"data:image/png;base64,", "hi">>)>>)>>, "\n\n">>

\* C1: a broadcast targeted at role r for the sender's username u (send-text
\* targets laptop, send-image targets phone) calls res.write only on handles
\* that are in u's bucket for r and that were registered under role r; no
\* handle of u's other role is written to.
C1_RoleIsolation ==
    [][\A sid \in SessionIds, p \in Payloads :
        /\ (lastResp'.op = "send-text" /\ SendText(sid, p)) =>
              \A h \in Written(lastWrites') :
                 /\ InBucket(connections, sessions[sid].username, "laptop", h)
                 /\ streams[h].deviceType = "laptop"
                 /\ ~InBucket(connections, sessions[sid].username, "phone", h)
        /\ (lastResp'.op = "send-image" /\ SendImage(sid, p)) =>
              \A h \in Written(lastWrites') :
                 /\ InBucket(connections, sessions[sid].username, "phone", h)
                 /\ streams[h].deviceType = "phone"
                 /\ ~InBucket(connections, sessions[sid].username, "laptop", h)
      ]_vars

\* A send-text reached a laptop stream of a user who also has a phone stream
\* registered, and the phone stream was not written to.
C1_Witness ==
    /\ lastResp = Resp("send-text", 200)
    /\ \E u \in Usernames, h1, h2 \in Handles :
          /\ InBucket(connections, u, "laptop", h1)
          /\ InBucket(connections, u, "phone", h2)
          /\ h1 \in Written(lastWrites)
          /\ h2 \notin Written(lastWrites)

\* C2: one broadcast delivers the serialized event exactly once to every handle
\* that is in the target bucket when the broadcast starts and whose transport
\* is up, and calls res.write at most once per handle; the text "hi" arrives
\* as data: {"type":"text","data":"hi"} followed by a blank line.
C2_ExactlyOnce ==
    [][\A sid \in SessionIds, p \in Payloads :
        /\ (lastResp'.op = "send-text" /\ Admitted(sid, "phone") /\ SendText(sid, p)) =>
              LET u == sessions[sid].username
                  expected == IF p = HiText THEN HiTextRecord
                              ELSE SseChunk([type |-> "text", data |-> p])
              IN  /\ \A h \in Handles :
                        (InBucket(connections, u, "laptop", h)
                            /\ streams[h].state = "open")
                        => Cardinality(Delivered(lastWrites', h, expected)) = 1
                  /\ \A h \in Handles :
                        Cardinality(Positions([i \in 1..Len(lastWrites') |->
                                        lastWrites'[i].res], h)) <= 1
        /\ (lastResp'.op = "send-image" /\ Admitted(sid, "laptop") /\ Truthy(p)
               /\ SendImage(sid, p)) =>
              LET u == sessions[sid].username
                  expected == IF p = HiText THEN HiImageRecord
                              ELSE SseChunk([type |-> "image", data |-> p])
              IN  /\ \A h \in Handles :
                        (InBucket(connections, u, "phone", h)
                            /\ streams[h].state = "open")
                        => Cardinality(Delivered(lastWrites', h, expected)) = 1
                  /\ \A h \in Handles :
                        Cardinality(Positions([i \in 1..Len(lastWrites') |->
                                        lastWrites'[i].res], h)) <= 1
      ]_vars

\* Two healthy laptop streams both received the text record of "hi".
C2_Witness ==
    /\ lastResp = Resp("send-text", 200)
    /\ \E h1, h2 \in Handles :
          /\ h1 # h2
          /\ Delivered(lastWrites, h1, HiTextRecord) # {}
          /\ Delivered(lastWrites, h2, HiTextRecord) # {}

\* C3: when the write to one handle fails during a broadcast, the handles that
\* follow it in the bucket are still written to, every handle of the bucket
\* whose transport is up takes the record, and the send is answered 200.
C3_FailureAbsorbed ==
    [][\A sid \in SessionIds, p \in Payloads :
        /\ (lastResp'.op = "send-text" /\ Admitted(sid, "phone") /\ SendText(sid, p)) =>
              LET u == sessions[sid].username
              IN  /\ lastResp'.status = 200
                  /\ \A h \in Handles :
                        InBucket(connections, u, "laptop", h)
                        => /\ h \in Written(lastWrites')
                           /\ streams[h].state = "open" =>
                                 \E i \in 1..Len(lastWrites') :
                                    lastWrites'[i].res = h /\ lastWrites'[i].ok
        /\ (lastResp'.op = "send-image" /\ Admitted(sid, "laptop") /\ Truthy(p)
               /\ SendImage(sid, p)) =>
              LET u == sessions[sid].username
              IN  /\ lastResp'.status = 200
                  /\ \A h \in Handles :
                        InBucket(connections, u, "phone", h)
                        => /\ h \in Written(lastWrites')
                           /\ streams[h].state = "open" =>
                                 \E i \in 1..Len(lastWrites') :
                                    lastWrites'[i].res = h /\ lastWrites'[i].ok
      ]_vars

\* A send was answered 200 after a write failed and a later write of the same
\* broadcast succeeded.
C3_Witness ==
    /\ lastResp.status = 200
    /\ \E i, j \in 1..Len(lastWrites) :
          i < j /\ ~lastWrites[i].ok /\ lastWrites[j].ok

\* C4: a handle whose write failed during a broadcast is not written to by the
\* broadcast of the next request, whether or not its close event has fired.
CX_C4_FailedHandleNotRetried ==
    [][\A i \in 1..Len(lastWrites) :
          ~lastWrites[i].ok => lastWrites[i].res \notin Written(lastWrites')
      ]_vars

\* C5: an open-stream request whose session holds the role of the endpoint is
\* answered 200 and leaves the new handle in the bucket of its username and
\* role, also when the registry had no record for that username.
CX_C5_OpenAlwaysRegisters ==
    [][\A sid \in SessionIds :
        /\ (lastResp'.op = "sse-laptop" /\ Admitted(sid, "laptop") /\ SseLaptop(sid)) =>
              /\ lastResp'.status = 200
              /\ InBucket(connections', sessions[sid].username, "laptop", nextRes)
        /\ (lastResp'.op = "sse-phone" /\ Admitted(sid, "phone") /\ SsePhone(sid)) =>
              /\ lastResp'.status = 200
              /\ InBucket(connections', sessions[sid].username, "phone", nextRes)
      ]_vars

\* C6: every handle occurs at most once in the whole registry, and right after
\* an open-stream request was accepted the bucket of the new handle's username
\* and role holds it exactly once.
C6_RegistryUnique ==
    /\ \A h \in Handles : Occurrences(connections, h) <= 1
    /\ (lastResp.op \in {"sse-laptop", "sse-phone"} /\ lastResp.status = 200) =>
          LET h == nextRes - 1
          IN  /\ HasRecord(connections, streams[h].username)
              /\ Cardinality(Positions(
                     connections[streams[h].username][streams[h].deviceType], h)) = 1
              /\ streams[h].deviceType =
                     (IF lastResp.op = "sse-laptop" THEN "laptop" ELSE "phone")

\* A second stream was just registered in a bucket that already held one.
C6_Witness ==
    /\ lastResp = Resp("sse-laptop", 200)
    /\ \E u \in Usernames :
          HasRecord(connections, u) /\ Len(connections[u]["laptop"]) = 2

\* C7: the close callback of a handle leaves it in no bucket, running the same
\* removal again on the result changes nothing, and a handle whose close
\* callback has run is in no bucket in any later state.
C7_UnregisterIdempotent ==
    [][/\ \A h \in Handles :
            (streams[h].state = "disconnected" /\ streams'[h].state = "closed") =>
               /\ ~Registered(connections', h)
               /\ Unregister(connections', streams[h].username,
                             streams[h].deviceType, h) = connections'
       /\ \A h \in Handles :
            streams[h].state = "closed" => ~Registered(connections, h)
      ]_vars

\* A closed handle next to a handle that is still registered.
C7_Witness ==
    \E h1, h2 \in Handles :
        /\ streams[h1].state = "closed"
        /\ ~Registered(connections, h1)
        /\ streams[h2].state = "open"
        /\ Registered(connections, h2)

\* C8: a broadcast for a username and role with no open stream (no record, or
\* an empty bucket) writes to no handle, leaves the registry unchanged and the
\* send request is answered 200.
C8_NoRecipients ==
    [][\A sid \in SessionIds, p \in Payloads :
        /\ (lastResp'.op = "send-text" /\ Admitted(sid, "phone")
               /\ (~HasRecord(connections, sessions[sid].username)
                      \/ connections[sessions[sid].username]["laptop"] = <<>>)
               /\ SendText(sid, p)) =>
              /\ lastResp'.status = 200
              /\ lastWrites' = <<>>
              /\ connections' = connections
        /\ (lastResp'.op = "send-image" /\ Admitted(sid, "laptop") /\ Truthy(p)
               /\ (~HasRecord(connections, sessions[sid].username)
                      \/ connections[sessions[sid].username]["phone"] = <<>>)
               /\ SendImage(sid, p)) =>
              /\ lastResp'.status = 200
              /\ lastWrites' = <<>>
              /\ connections' = connections
      ]_vars

\* A send-text was accepted while the registry held no record at all.
C8_Witness ==
    /\ lastResp = Resp("send-text", 200)
    /\ lastWrites = <<>>
    /\ \A u \in Usernames : ~HasRecord(connections, u)

\* C9: a send or open-stream request whose session is absent or holds another
\* role than the endpoint requires (send-text and /sse/phone: phone; send-image
\* and /sse/laptop: laptop) is answered 403, writes to no handle and leaves
\* the registry and the streams unchanged.
C9_AccessGate ==
    [][\A sid \in SessionIds :
        LET rejected == /\ lastResp'.status = 403
                        /\ lastWrites' = <<>>
                        /\ connections' = connections
                        /\ streams' = streams
        IN  /\ (lastResp'.op = "send-text" /\ ~Admitted(sid, "phone")
                   /\ \E p \in Payloads : SendText(sid, p)) => rejected
            /\ (lastResp'.op = "send-image" /\ ~Admitted(sid, "laptop")
                   /\ \E p \in Payloads : SendImage(sid, p)) => rejected
            /\ (lastResp'.op = "sse-phone" /\ ~Admitted(sid, "phone")
                   /\ SsePhone(sid)) => rejected
            /\ (lastResp'.op = "sse-laptop" /\ ~Admitted(sid, "laptop")
                   /\ SseLaptop(sid)) => rejected
      ]_vars

\* A send-text was refused although every session is logged in and a laptop
\* stream is open: the caller held the wrong role.
C9_Witness ==
    /\ lastResp = Resp("send-text", 403)
    /\ \A sid \in SessionIds : sessions[sid] # NoSession
    /\ \E h \in Handles :
          streams[h].state = "open" /\ streams[h].deviceType = "laptop"

\* The record has a type member and a string data member.
WellFormed(chunk) ==
    LET json == chunk[2]
    IN  /\ \E i \in 1..Len(json) :
              json[i][1] = "type" /\ json[i][2] \in {Str(<<"text">>), Str(<<"image">>)}
        /\ \E i \in 1..Len(json) :
              json[i][1] = "data" /\ json[i][2].kind = "string"

\* C10: a send request that passes the gate and whose body lacks the payload
\* field is answered 400 and writes nothing, and every record written to a
\* handle has a type member and a string data member.
CX_C10_PayloadRequired ==
    [][/\ \A sid \in SessionIds :
            /\ (lastResp'.op = "send-text" /\ Admitted(sid, "phone")
                   /\ SendText(sid, Undefined)) =>
                  (lastResp'.status = 400 /\ lastWrites' = <<>>)
            /\ (lastResp'.op = "send-image" /\ Admitted(sid, "laptop")
                   /\ SendImage(sid, Undefined)) =>
                  (lastResp'.status = 400 /\ lastWrites' = <<>>)
       /\ \A i \in 1..Len(lastWrites') : WellFormed(lastWrites'[i].chunk)
      ]_vars


\* C11: in every state, a stream whose open request was accepted and whose
\* close callback has not run (transport up or already gone) is in the bucket
\* of the username and role its handler captured, so the relay sees it.
C11_OpenIsRegistered ==
    \A h \in Handles :
        streams[h].state \in {"open", "disconnected"} =>
            InBucket(connections, streams[h].username, streams[h].deviceType, h)

\* An open-stream request was just accepted and its handle is in the bucket.
C11_Witness ==
    /\ lastResp = Resp("sse-phone", 200)
    /\ streams[nextRes - 1].state = "open"
    /\ InBucket(connections, streams[nextRes - 1].username, "phone", nextRes - 1)


\* C12: a handle whose close callback has run stays closed, is in no bucket now
\* or later and is written to by no later broadcast; a send-text whose target
\* bucket is empty after a close is answered 200 and writes nothing; and, the
\* close event being dispatched, every stream whose transport is gone is
\* eventually closed and unregistered: a disconnected stream can only stay
\* disconnected or become closed, and no stream stays disconnected forever.
C12_ClosedIsTerminal ==
    /\ [][/\ \A h \in Handles :
                streams[h].state = "closed" =>
                   /\ streams'[h].state = "closed"
                   /\ ~Registered(connections, h)
                   /\ ~Registered(connections', h)
                   /\ h \notin Written(lastWrites')
          /\ \A h \in Handles :
                streams[h].state = "disconnected" =>
                   streams'[h].state \in {"disconnected", "closed"}
          /\ \A sid \in SessionIds :
                (/\ lastResp'.op = "send-text"
                 /\ Admitted(sid, "phone")
                 /\ HasRecord(connections, sessions[sid].username)
                 /\ connections[sessions[sid].username]["laptop"] = <<>>
                 /\ \E h \in Handles : streams[h].state = "closed"
                 /\ SendText(sid, HiText))
                => (lastResp'.status = 200 /\ lastWrites' = <<>>)
         ]_vars
    /\ \A h \in Handles : []<>(streams[h].state # "disconnected")

\* A send-text was accepted and wrote nothing after the streams were closed and
\* the sender's laptop bucket is empty again.
C12_Witness ==
    /\ lastResp = Resp("send-text", 200)
    /\ lastWrites = <<>>
    /\ nextRes > 1
    /\ \A h \in Handles : h < nextRes => streams[h].state = "closed"
    /\ \E sid \in SessionIds :
          /\ Admitted(sid, "phone")
          /\ HasRecord(connections, sessions[sid].username)
          /\ connections[sessions[sid].username]["laptop"] = <<>>


\* C13: the close callback of a handle h registered under (u, r) only removes
\* h: the other handles of that bucket keep their places, u's other bucket and
\* the records of the other usernames are unchanged, no other stream changes,
\* the sessions are unchanged and nothing is written to any handle.
C13_CloseOnlyUnregisters ==
    [][\A h \in Handles :
        (streams[h].state = "disconnected" /\ streams'[h].state = "closed") =>
           LET u == streams[h].username
               r == streams[h].deviceType
           IN  /\ connections'[u][r] =
                     SelectSeq(connections[u][r], LAMBDA x : x # h)
               /\ connections'[u][OtherRole(r)] = connections[u][OtherRole(r)]
               /\ \A v \in Usernames \ {u} : connections'[v] = connections[v]
               /\ \A g \in Handles \ {h} : streams'[g] = streams[g]
               /\ sessions' = sessions
               /\ nextRes' = nextRes
               /\ lastWrites' = <<>>
      ]_vars

\* A handle was closed while another handle is still registered and open and
\* every other username has a record too.
C13_Witness ==
    \E h1, h2 \in Handles, u \in Usernames :
        /\ streams[h1].state = "closed"
        /\ lastResp = NoResp
        /\ streams[h2].state = "open"
        /\ streams[h2].username = u
        /\ InBucket(connections, u, streams[h2].deviceType, h2)
        /\ \A v \in Usernames \ {u} : HasRecord(connections, v)


\* The handles that were opened under (u, r) and whose close callback has not run.
LiveUnder(u, r) ==
    {h \in Handles :
        /\ streams[h].state \in {"open", "disconnected"}
        /\ streams[h].username = u
        /\ streams[h].deviceType = r}

\* C14: whatever the order in which open-stream handlers, close callbacks and
\* broadcasts of the same user ran, each bucket holds exactly the handles that
\* were opened under it and have not closed, each once; a username without a
\* record has no such handle.
C14_NoLostUpdate ==
    \A u \in Usernames, r \in DeviceTypes :
        IF HasRecord(connections, u)
        THEN /\ {connections[u][r][i] : i \in 1..Len(connections[u][r])}
                    = LiveUnder(u, r)
             /\ Len(connections[u][r]) = Cardinality(LiveUnder(u, r))
        ELSE LiveUnder(u, r) = {}

\* Two streams of one bucket, the first with its transport gone and its close
\* callback pending while a broadcast has just written to both.
C14_Witness ==
    \E u \in Usernames, r \in DeviceTypes :
        /\ HasRecord(connections, u)
        /\ Len(connections[u][r]) = 2
        /\ streams[connections[u][r][1]].state = "disconnected"
        /\ streams[connections[u][r][2]].state = "open"
        /\ Len(lastWrites) = 2
        /\ ~lastWrites[1].ok
        /\ lastWrites[2].ok


\* The session that made the open-stream request just accepted, when the
\* sessions identify it: it is the only one with the identity of the new handle.
JustOpenedBy(sid) ==
    /\ lastResp.op \in {"sse-laptop", "sse-phone"}
    /\ lastResp.status = 200
    /\ sessions[sid] = [username |-> streams[nextRes - 1].username,
                        deviceType |-> streams[nextRes - 1].deviceType]
    /\ \A other \in SessionIds \ {sid} : sessions[other] # sessions[sid]

\* C15: when a session logs out, the stream it has just opened leaves the
\* registry (so that no broadcast sent after the logout reaches it).
CX_C15_LogoutEndsStream ==
    [][\A sid \in SessionIds :
        (JustOpenedBy(sid) /\ sessions'[sid] = NoSession /\ Logout(sid)) =>
           ~Registered(connections', nextRes - 1)
      ]_vars


\* C16: a username that has a record keeps it in every later step, with a
\* laptop bucket and a phone bucket that hold handles only, also when its last
\* stream closes and when its sessions log out; the set of usernames with a
\* record only grows.
C16_RecordNeverRemoved ==
    [][\A u \in Usernames :
        HasRecord(connections, u) =>
           /\ HasRecord(connections', u)
           /\ DOMAIN connections'[u] = {"laptop", "phone"}
           /\ \A r \in DeviceTypes :
                 \A i \in 1..Len(connections'[u][r]) :
                    connections'[u][r][i] \in Handles
      ]_vars

\* A record with two empty buckets after its streams closed and every session
\* logged out.
C16_Witness ==
    /\ \E u \in Usernames :
          /\ HasRecord(connections, u)
          /\ connections[u]["laptop"] = <<>>
          /\ connections[u]["phone"] = <<>>
    /\ \E h \in Handles : streams[h].state = "closed"
    /\ \A h \in Handles : streams[h].state \in {"closed", "unopened"}
    /\ \A sid \in SessionIds : sessions[sid] = NoSession


\* C17: a send made by a session authenticated as username u calls res.write
\* only on handles opened under u that are in a bucket of u; no handle in a
\* bucket of another username is written to.
C17_UserIsolation ==
    [][\A sid \in SessionIds :
        (/\ lastResp'.op \in {"send-text", "send-image"}
         /\ lastWrites' # <<>>
         /\ \E p \in Payloads : SendText(sid, p) \/ SendImage(sid, p))
        => \A h \in Written(lastWrites') :
              /\ streams[h].username = sessions[sid].username
              /\ \E r \in DeviceTypes :
                    InBucket(connections, sessions[sid].username, r, h)
              /\ \A v \in Usernames \ {sessions[sid].username}, r \in DeviceTypes :
                    ~InBucket(connections, v, r, h)
      ]_vars

\* A send-text reached a laptop stream of one username while another username
\* has an open laptop stream that was not written to.
C17_Witness ==
    /\ lastResp = Resp("send-text", 200)
    /\ \E h1, h2 \in Handles :
          /\ h1 \in Written(lastWrites)
          /\ h2 \notin Written(lastWrites)
          /\ streams[h1].username # streams[h2].username
          /\ streams[h2].state = "open"
          /\ streams[h2].deviceType = "laptop"
          /\ InBucket(connections, streams[h2].username, "laptop", h2)


\* C18: a send request leaves every bucket of every username as it was, whether
\* its writes succeeded or failed; a step that changes the registry is an
\* accepted open-stream request, a close callback or a login.
C18_BroadcastKeepsRegistry ==
    [][/\ lastResp'.op \in {"send-text", "send-image"} => connections' = connections
       /\ connections' # connections =>
             \/ /\ lastResp'.op \in {"sse-laptop", "sse-phone"}
                /\ lastResp'.status = 200
                /\ \E sid \in SessionIds : SseLaptop(sid) \/ SsePhone(sid)
             \/ \E h \in Handles : CloseCallback(h)
             \/ \E sid \in SessionIds, body \in LoginBodies : Login(sid, body)
      ]_vars

\* A broadcast has just had a write fail and the handle is still in its bucket.
C18_Witness ==
    /\ lastResp.op \in {"send-text", "send-image"}
    /\ \E i \in 1..Len(lastWrites) :
          /\ ~lastWrites[i].ok
          /\ Registered(connections, lastWrites[i].res)


\* No session holds the identity that the open handler of h captured.
Orphaned(h) ==
    \A sid \in SessionIds :
        sessions[sid] # [username |-> streams[h].username,
                         deviceType |-> streams[h].deviceType]

\* C19: a login changes no stream and no bucket of a username that has a
\* record (a username without one gets two empty buckets or stays without);
\* and the close callback of a handle whose identity no session holds any more
\* (its session logged in again as someone else) finds the handle in the bucket
\* of the identity captured at open time and removes it from there.
C19_LoginKeepsHandles ==
    [][/\ (/\ lastResp' = NoResp
           /\ streams' = streams
           /\ \E sid \in SessionIds, body \in LoginBodies : Login(sid, body))
          => \A u \in Usernames :
                IF HasRecord(connections, u)
                THEN connections'[u] = connections[u]
                ELSE connections'[u] \in {NoRecord, [laptop |-> <<>>, phone |-> <<>>]}
       /\ \A h \in Handles :
             (/\ streams[h].state = "disconnected"
              /\ streams'[h].state = "closed"
              /\ Orphaned(h))
             => /\ InBucket(connections, streams[h].username,
                            streams[h].deviceType, h)
                /\ Occurrences(connections, h) = 1
                /\ ~Registered(connections', h)
      ]_vars

\* After logins, every session is logged in under another identity than the one
\* an open, registered stream was opened with.
C19_Witness ==
    /\ lastResp = NoResp
    /\ \A sid \in SessionIds : sessions[sid] # NoSession
    /\ \E h \in Handles :
          /\ streams[h].state = "open"
          /\ Orphaned(h)
          /\ InBucket(connections, streams[h].username, streams[h].deviceType, h)

====
